---- MODULE Spec2Model ----
(***************************************************************************)
(* Model of the Emby/Jellyfin target of autopulse                          *)
(* (crates/service/src/settings/targets/emby.rs): Emby::process and the    *)
(* helpers it drives (get_libraries, fetch_items, get_items, refresh_item, *)
(* targeted_scan, targeted_scan_batch).                                    *)
(*                                                                         *)
(* An event is its index in evs (ids are distinct within a run); evs[i] is *)
(* the event's rewritten path.  Paths are sequences of path components, so *)
(* that Path::starts_with is a component-wise prefix test.                 *)
(*                                                                         *)
(* The remote server is the environment: every answer it can give (the     *)
(* libraries, the batch response, each single scan result, each page of a  *)
(* library's items, each refresh result) is chosen nondeterministically.   *)
(*                                                                         *)
(* Tasks are scheduled cooperatively: a task runs from one .await to the   *)
(* next without interruption, and an aborted task is dropped the next time *)
(* the runtime would poll it.                                              *)
(***************************************************************************)
EXTENDS Integers, Sequences, FiniteSets, TLC

\* ------------------------------------------------------------------ bounds
\* events in one batch
MaxEvents == 2
\* results in one batch response
MaxResults == 2
\* items in one library's catalog
MaxItems == 2
\* page size of fetch_items (1000 in the source, scaled down)
limit == 2

\* ------------------------------------------------------------------ inputs
PathA == <<"m", "a">>
PathB == <<"m", "tv", "b">>
PathX == <<"x", "c">>
\* rewritten paths an event can have
EventPaths == {PathA, PathB, PathX}

NoPath == <<>>

LibM == [name |-> "M", locations |-> << <<"m">> >>]
LibTV == [name |-> "TV", locations |-> << <<"m", "tv">> >>]
\* one library with two locations that both contain PathB
LibMM == [name |-> "MM", locations |-> << <<"m">>, <<"m", "tv">> >>]
\* answers of GET Library/VirtualFolders
LibraryConfigs == {<<>>, <<LibMM>>, <<LibM, LibTV>>}
LibNames == {"M", "TV", "MM"}

Statuses ==
    {"Created", "Refreshed", "Discovered", "PathNotFound", "ParentNotFound", "Error"}

\* results a batch response can carry: keyed by Path, or by Message when Path is empty
BatchResults ==
    {[path |-> p, message |-> NoPath, status |-> s] : p \in EventPaths, s \in Statuses}
    \cup {[path |-> NoPath, message |-> p, status |-> s] :
             p \in {PathA, PathB}, s \in {"ParentNotFound", "Error"}}

RECURSIVE SeqsUpTo(_, _)
SeqsUpTo(S, n) ==
    IF n = 0 THEN {<<>>}
    ELSE LET shorter == SeqsUpTo(S, n - 1)
         IN shorter \cup {Append(q, x) : q \in {r \in shorter : Len(r) = n - 1}, x \in S}

\* an item's path: None, or Some(path)
ItemPaths == {NoPath, PathA, PathB}

\* ------------------------------------------------------------------ state
VARIABLES
    evs,               \* the batch: evs[i] is the rewritten path of event i
    refresh_metadata,  \* Emby.refresh_metadata
    pc,                \* position of process()
    libraries,         \* the fetched libraries
    succeeded,         \* HashMap<String, bool>: event id -> disposition
    all_with_paths,    \* events that match a library, in batch order
    remaining,         \* events still unresolved
    ret,               \* value returned by process(): "none", Ok ids, or an error
    \* Tier 2
    attempt,           \* loop counter
    scan_results,      \* results of the in-flight round
    rounds,            \* history: the events requested in each round
    delays,            \* history: the backoff delays slept
    \* Tier 1 history
    batch_evs,         \* events whose paths were sent in the batch request
    batch_outcome,     \* "none", "ok" or "err"
    t1_last_notfound,  \* events for whose path result_map holds a NotFound result
    t1_notfound,       \* events with some NotFound result keyed to their path
    \* Tier 3
    to_find,           \* HashMap<Library, Vec<&ScanEvent>> still to iterate
    library,           \* the library being enumerated
    events,            \* get_items: its events argument
    found_in_library,  \* get_items: (event, item) pairs
    not_found_in_library,
    catalog,           \* the items the server holds for the library
    queue,             \* the unbounded channel between producer and consumer
    prod,              \* library -> state of its producer task
    page,              \* producer: page counter
    page_reqs,         \* history: offsets (StartIndex) the current producer requested
    sent,              \* history: items the current producer has sent
    enumerated,        \* history: library -> how its enumeration ended
    wanted,            \* history: events placed in a Tier 3 wanted set
    refresh_log,       \* history: the refresh calls issued for the current library
    refreshes,         \* history: event -> refresh calls issued on its behalf
    refresh_failed     \* history: events for which a refresh call returned Err

conf == <<evs, refresh_metadata>>
tier1 == <<batch_evs, batch_outcome, t1_last_notfound, t1_notfound>>
tier2 == <<attempt, scan_results, rounds, delays>>
consumer == <<to_find, library, events, found_in_library, not_found_in_library, enumerated,
              wanted, refresh_log, refreshes, refresh_failed>>
producer == <<catalog, queue, prod, page, page_reqs, sent>>
tier3 == <<consumer, producer>>

vars == <<conf, pc, libraries, succeeded, all_with_paths, remaining, ret, tier1, tier2,
          tier3>>

Events == 1 .. Len(evs)

\* ------------------------------------------------------------------ helpers
\* Path::starts_with
starts_with(path, base) ==
    /\ Len(base) <= Len(path)
    /\ SubSeq(path, 1, Len(base)) = base

RECURSIVE MatchLocations(_, _, _)
MatchLocations(lib, locations, ev_path) ==
    IF locations = <<>> THEN <<>>
    ELSE (IF starts_with(ev_path, Head(locations)) THEN <<lib>> ELSE <<>>)
         \o MatchLocations(lib, Tail(locations), ev_path)

\* Emby::get_libraries: one entry per matching (library, location)
RECURSIVE get_libraries(_, _)
get_libraries(libs, path) ==
    IF libs = <<>> THEN <<>>
    ELSE MatchLocations(Head(libs), Head(libs).locations, path)
         \o get_libraries(Tail(libs), path)

\* succeeded.insert(id, v)
Insert(s, id, v) == (id :> v) @@ s

\* *succeeded.entry(id).or_insert(true) &= true
AndTrue(s, id) ==
    IF id \in DOMAIN s THEN [s EXCEPT ![id] = @ /\ TRUE] ELSE (id :> TRUE) @@ s

RECURSIVE AndTrueAll(_, _)
AndTrueAll(s, ids) ==
    IF ids = <<>> THEN s ELSE AndTrueAll(AndTrue(s, Head(ids)), Tail(ids))

RECURSIVE InsertAll(_, _, _)
InsertAll(s, ids, v) ==
    IF ids = <<>> THEN s ELSE InsertAll(Insert(s, Head(ids), v), Tail(ids), v)

Range(q) == {q[i] : i \in DOMAIN q}

\* the returned Vec<String>: ids whose disposition is true
SucceededIds(s) == {k \in DOMAIN s : s[k]}

\* process() has not returned / returned Ok(ids) / returned Err(context)
NoReturn == [kind |-> "none", ids |-> {}, context |-> ""]

ReturnOk(ids) == [kind |-> "ok", ids |-> ids, context |-> ""]

ReturnErr(context) == [kind |-> "err", ids |-> {}, context |-> context]

NoLibrary == [name |-> "none", locations |-> <<>>]

NotEnumerated == [how |-> "none", paths |-> {}]

\* ------------------------------------------------------------------ Init
Init ==
    /\ evs \in SeqsUpTo(EventPaths, MaxEvents)
    /\ refresh_metadata \in BOOLEAN
    /\ pc = "libraries"
    /\ libraries = <<>>
    /\ succeeded = <<>>
    /\ all_with_paths = <<>>
    /\ remaining = <<>>
    /\ attempt = 0
    /\ scan_results = <<>>
    /\ ret = NoReturn
    /\ batch_evs = <<>>
    /\ batch_outcome = "none"
    /\ t1_last_notfound = {}
    /\ t1_notfound = {}
    /\ rounds = <<>>
    /\ delays = <<>>
    /\ to_find = <<>>
    /\ library = NoLibrary
    /\ events = <<>>
    /\ found_in_library = <<>>
    /\ not_found_in_library = <<>>
    /\ catalog = <<>>
    /\ queue = <<>>
    /\ prod = [n \in LibNames |-> "none"]
    /\ page = 0
    /\ page_reqs = <<>>
    /\ sent = <<>>
    /\ enumerated = [n \in LibNames |-> NotEnumerated]
    /\ wanted = {}
    /\ refresh_log = <<>>
    /\ refreshes = [ev \in Events |-> 0]
    /\ refresh_failed = {}

\* ------------------------------------------------------------------ catalog
\* mutant: a failed catalog fetch marks every event Failed before the error is returned
LibrariesErr_Dispositions ==
    /\ pc = "libraries"
    /\ pc' = "error"
    /\ ret' = ReturnErr("failed to fetch libraries")
    /\ succeeded' = InsertAll(succeeded, [i \in Events |-> i], FALSE)
    /\ UNCHANGED <<conf, libraries, all_with_paths, remaining, tier1, tier2, tier3>>

\* self.libraries() fails: process returns the error
LibrariesErr ==
    /\ pc = "libraries"
    /\ pc' = "error"
    /\ ret' = ReturnErr("failed to fetch libraries")
    /\ UNCHANGED <<conf, libraries, succeeded, all_with_paths, remaining, tier1, tier2, tier3>>

HasNoLibrary(libs, ev) == get_libraries(libs, evs[ev]) = <<>>

\* mutant: every event is sent to the tiers, matched or not
AllWithPaths_Unfiltered(libs) == [i \in Events |-> i]

\* events that match a library, in order
AllWithPaths(libs) ==
    LET Matches(ev) == ~HasNoLibrary(libs, ev)
    IN SelectSeq([i \in Events |-> i], Matches)

\* events that match no library, in order
Unmatched(libs) ==
    LET NoMatch(ev) == HasNoLibrary(libs, ev)
    IN SelectSeq([i \in Events |-> i], NoMatch)

\* the value of the early return when no event matches a library
EarlyReturn(s) == {}

\* self.libraries() succeeds; events are classified; the batch request is sent
LibrariesOk ==
    /\ pc = "libraries"
    /\ \E libs \in LibraryConfigs :
        /\ libraries' = libs
        /\ succeeded' = InsertAll(succeeded, Unmatched(libs), TRUE)
        /\ all_with_paths' = AllWithPaths(libs)
        /\ IF AllWithPaths(libs) = <<>>
           THEN /\ pc' = "done"
                /\ ret' = ReturnOk(EarlyReturn(succeeded'))
                /\ batch_evs' = batch_evs
           ELSE /\ pc' = "tier1"
                /\ ret' = ret
                /\ batch_evs' = AllWithPaths(libs)
    /\ UNCHANGED <<conf, remaining, batch_outcome, t1_last_notfound, t1_notfound, tier2, tier3>>

\* ------------------------------------------------------------------ Tier 1
\* the key a batch result is matched by: Path, or Message when Path is empty
ResultKey(r) == IF r.path = NoPath THEN r.message ELSE r.path

\* result_map: collecting into a HashMap keeps the last result of each key
RECURSIVE result_map(_)
result_map(results) ==
    IF results = <<>> THEN <<>>
    ELSE LET r == results[Len(results)]
         IN (ResultKey(r) :> r) @@ result_map(SubSeq(results, 1, Len(results) - 1))

IsResolved(status) == status \in {"Created", "Refreshed", "Discovered"}

\* mutant: ParentNotFound is not treated as a terminal not-found
IsNotFound_PathOnly(status) == status = "PathNotFound"

IsNotFound(status) == status \in {"PathNotFound", "ParentNotFound"}

\* the two Some(r) arms of the Tier 1 match: the event is done
Tier1Succeeds(map, ev_path) ==
    /\ ev_path \in DOMAIN map
    /\ IsResolved(map[ev_path].status) \/ IsNotFound(map[ev_path].status)

\* targeted_scan_batch returns Ok(batch_result)
BatchOk ==
    /\ pc = "tier1"
    /\ \E results \in SeqsUpTo(BatchResults, MaxResults) :
        LET map == result_map(results)
            Done(ev) == Tier1Succeeds(map, evs[ev])
            NotDone(ev) == ~Tier1Succeeds(map, evs[ev])
        IN /\ succeeded' = AndTrueAll(succeeded, SelectSeq(all_with_paths, Done))
           /\ remaining' = SelectSeq(all_with_paths, NotDone)
           /\ t1_last_notfound' = {ev \in Range(all_with_paths) :
                                      /\ evs[ev] \in DOMAIN map
                                      /\ map[evs[ev]].status \in
                                             {"PathNotFound", "ParentNotFound"}}
           /\ t1_notfound' = {ev \in Range(all_with_paths) :
                                 \E i \in DOMAIN results :
                                     /\ ResultKey(results[i]) = evs[ev]
                                     /\ results[i].status \in
                                            {"PathNotFound", "ParentNotFound"}}
    /\ batch_outcome' = "ok"
    /\ pc' = "t2"
    /\ UNCHANGED <<conf, libraries, all_with_paths, ret, batch_evs, tier2, tier3>>

\* mutant: a failed batch call aborts the run
BatchErr_Aborts ==
    /\ pc = "tier1"
    /\ batch_outcome' = "err"
    /\ pc' = "error"
    /\ ret' = ReturnErr("batch targeted scan failed")
    /\ UNCHANGED <<conf, libraries, succeeded, all_with_paths, remaining, batch_evs,
                   t1_last_notfound, t1_notfound, tier2, tier3>>

\* targeted_scan_batch returns Err: every event goes to Tier 2
BatchErr ==
    /\ pc = "tier1"
    /\ remaining' = all_with_paths
    /\ batch_outcome' = "err"
    /\ pc' = "t2"
    /\ UNCHANGED <<conf, libraries, succeeded, all_with_paths, ret, batch_evs, t1_last_notfound,
                   t1_notfound, tier2, tier3>>

\* ------------------------------------------------------------------ Tier 2
backoff_delays == <<5, 15, 30>>

\* the last value of attempt in 0..=backoff_delays.len()
LastAttempt == Len(backoff_delays)

\* results of targeted_scan: Ok(response with a status), or Err
ScanOutcomes == {"Created", "PathNotFound", "ParentNotFound", "Error", "Err"}

\* mutant: the loop does not break when remaining is empty
Tier2Continues_NoBreak == attempt <= LastAttempt

\* another round runs: attempt is in 0..=backoff_delays.len() and remaining is not empty
Tier2Continues == attempt <= LastAttempt /\ remaining # <<>>

\* the loop ends: the range is exhausted, or remaining is empty (break)
Tier2Exit ==
    /\ pc = "t2"
    /\ ~Tier2Continues
    /\ pc' = "t3gate"
    /\ UNCHANGED <<conf, libraries, succeeded, all_with_paths, remaining, ret, tier1, tier2,
                   tier3>>

\* tokio::time::sleep before a retry round
Tier2Backoff ==
    /\ pc = "t2"
    /\ Tier2Continues
    /\ attempt > 0
    /\ delays' = Append(delays, backoff_delays[attempt])
    /\ pc' = "t2_issue"
    /\ UNCHANGED <<conf, libraries, succeeded, all_with_paths, remaining, ret, tier1, attempt,
                   scan_results, rounds, tier3>>

\* join_all polls every future once: one request per remaining event is sent
Tier2Issue ==
    /\ \/ pc = "t2" /\ Tier2Continues /\ attempt = 0
       \/ pc = "t2_issue"
    /\ scan_results' = [ev \in Range(remaining) |-> "pending"]
    /\ rounds' = Append(rounds, remaining)
    /\ pc' = "t2_join"
    /\ UNCHANGED <<conf, libraries, succeeded, all_with_paths, remaining, ret, tier1, attempt,
                   delays, tier3>>

\* one targeted_scan completes
ScanRespond ==
    /\ pc = "t2_join"
    /\ \E ev \in DOMAIN scan_results, r \in ScanOutcomes :
        /\ scan_results[ev] = "pending"
        /\ scan_results' = [scan_results EXCEPT ![ev] = r]
    /\ UNCHANGED <<conf, pc, libraries, succeeded, all_with_paths, remaining, ret, tier1,
                   attempt, rounds, delays, tier3>>

\* mutant: every result is pushed to still_remaining
Tier2Succeeds_Never(result) == FALSE

\* the Ok arms of the Tier 2 match: any parsed response resolves the event
Tier2Succeeds(result) == result # "Err"

\* mutant: the round is merged as soon as one request has completed; requests still
\* in flight are carried to the next round
Tier2Merge_FirstCompleted ==
    /\ pc = "t2_join"
    /\ \E ev \in DOMAIN scan_results : scan_results[ev] # "pending"
    /\ LET Done(ev) == scan_results[ev] \notin {"Err", "pending"}
           NotDone(ev) == scan_results[ev] \in {"Err", "pending"}
       IN /\ succeeded' = AndTrueAll(succeeded, SelectSeq(remaining, Done))
          /\ remaining' = SelectSeq(remaining, NotDone)
    /\ scan_results' = <<>>
    /\ attempt' = attempt + 1
    /\ pc' = "t2"
    /\ UNCHANGED <<conf, libraries, all_with_paths, ret, tier1, rounds, delays, tier3>>

\* join_all returns: results are merged in order, remaining = still_remaining
Tier2Merge ==
    /\ pc = "t2_join"
    /\ \A ev \in DOMAIN scan_results : scan_results[ev] # "pending"
    /\ LET Done(ev) == Tier2Succeeds(scan_results[ev])
           NotDone(ev) == ~Tier2Succeeds(scan_results[ev])
       IN /\ succeeded' = AndTrueAll(succeeded, SelectSeq(remaining, Done))
          /\ remaining' = SelectSeq(remaining, NotDone)
    /\ scan_results' = <<>>
    /\ attempt' = attempt + 1
    /\ pc' = "t2"
    /\ UNCHANGED <<conf, libraries, all_with_paths, ret, tier1, rounds, delays, tier3>>

\* ------------------------------------------------------------------ Tier 3
\* to_find.entry(library).or_insert_with(Vec::new).push(ev), for each matched library
RECURSIVE PushEvent(_, _, _)
PushEvent(map, libs, ev) ==
    IF libs = <<>> THEN map
    ELSE LET lib == Head(libs)
             pushed == IF lib \in DOMAIN map THEN [map EXCEPT ![lib] = Append(@, ev)]
                       ELSE (lib :> <<ev>>) @@ map
         IN PushEvent(pushed, Tail(libs), ev)

RECURSIVE BuildToFind(_, _, _)
BuildToFind(map, libs, rem) ==
    IF rem = <<>> THEN map
    ELSE BuildToFind(PushEvent(map, get_libraries(libs, evs[Head(rem)]), Head(rem)),
                     libs, Tail(rem))

Without(map, key) == [k \in DOMAIN map \ {key} |-> map[k]]

\* mutant: the fallback runs whether or not it is enabled
Tier3Enabled_IgnoresFlag == remaining # <<>>

\* the Tier 3 gate: events are left and the fallback is enabled
Tier3Enabled == remaining # <<>> /\ refresh_metadata

Tier3Enter ==
    /\ pc = "t3gate"
    /\ Tier3Enabled
    /\ to_find' = BuildToFind(<<>>, libraries, remaining)
    /\ wanted' = Range(remaining)
    /\ pc' = "t3_loop"
    /\ UNCHANGED <<conf, libraries, succeeded, all_with_paths, remaining, ret, tier1, tier2,
                   library, events, found_in_library, not_found_in_library, enumerated,
                   refresh_log, refreshes, refresh_failed, producer>>

\* the else-if branch: events are left and the fallback is disabled
Tier3Disabled ==
    /\ pc = "t3gate"
    /\ ~Tier3Enabled
    /\ remaining # <<>>
    /\ succeeded' = InsertAll(succeeded, remaining, FALSE)
    /\ ret' = ReturnOk(SucceededIds(succeeded'))
    /\ pc' = "done"
    /\ UNCHANGED <<conf, libraries, all_with_paths, remaining, tier1, tier2, tier3>>

\* nothing is left after Tier 2
Tier3Skip ==
    /\ pc = "t3gate"
    /\ ~Tier3Enabled
    /\ remaining = <<>>
    /\ ret' = ReturnOk(SucceededIds(succeeded))
    /\ pc' = "done"
    /\ UNCHANGED <<conf, libraries, succeeded, all_with_paths, remaining, tier1, tier2,
                   tier3>>

\* get_items calls fetch_items, which spawns the producer task
GetItems ==
    /\ pc = "t3_loop"
    /\ \E lib \in DOMAIN to_find, items \in SeqsUpTo(ItemPaths, MaxItems) :
        /\ library' = lib
        /\ events' = to_find[lib]
        /\ to_find' = Without(to_find, lib)
        /\ catalog' = items
        /\ prod' = [prod EXCEPT ![lib.name] = "spawned"]
        /\ not_found_in_library' = to_find[lib]
    /\ found_in_library' = <<>>
    /\ queue' = <<>>
    /\ page' = 0
    /\ page_reqs' = <<>>
    /\ sent' = <<>>
    /\ refresh_log' = <<>>
    /\ pc' = "recv"
    /\ UNCHANGED <<conf, libraries, succeeded, all_with_paths, remaining, ret, tier1, tier2,
                   enumerated, wanted, refreshes, refresh_failed>>

\* fetch_items returns Err (get_client / get_url): process returns it with context
FetchItemsErr ==
    /\ pc = "t3_loop"
    /\ \E lib \in DOMAIN to_find :
        ret' = ReturnErr("failed to fetch items for library: " \o lib.name)
    /\ pc' = "error"
    /\ UNCHANGED <<conf, libraries, succeeded, all_with_paths, remaining, tier1, tier2,
                   tier3>>

\* the request of page `pg`: StartIndex = page * limit
StartIndex(pg) == pg * limit

\* the items the server returns for StartIndex = start, Limit = limit
PageItems(start) ==
    LET n == IF Len(catalog) - start < limit THEN Len(catalog) - start ELSE limit
    IN [i \in 1 .. (IF n < 0 THEN 0 ELSE n) |->
           [id |-> start + i, path |-> catalog[start + i]]]

\* mutant: a full page is taken for the last one
LastPage_OffByOne(found_items_count) == found_items_count <= limit

\* the loop's exit test: found_items_count < limit
LastPage(found_items_count) == found_items_count < limit

\* the task is polled for the first time: it requests page 0
ProducerStart ==
    /\ library # NoLibrary
    /\ prod[library.name] = "spawned"
    /\ prod' = [prod EXCEPT ![library.name] = "awaiting"]
    /\ page_reqs' = <<StartIndex(page)>>
    /\ UNCHANGED <<conf, pc, libraries, succeeded, all_with_paths, remaining, ret, tier1,
                   tier2, consumer, catalog, queue, page, sent>>

\* a page arrives: every item is sent, then the task ends or requests the next page
ProducerPage ==
    /\ library # NoLibrary
    /\ prod[library.name] = "awaiting"
    /\ LET items == PageItems(StartIndex(page))
       IN /\ queue' = queue \o items
          /\ sent' = sent \o items
          /\ IF LastPage(Len(items))
             THEN /\ prod' = [prod EXCEPT ![library.name] = "ok"]
                  /\ UNCHANGED <<page, page_reqs>>
             ELSE /\ page' = page + 1
                  /\ page_reqs' = Append(page_reqs, StartIndex(page + 1))
                  /\ prod' = prod
    /\ UNCHANGED <<conf, pc, libraries, succeeded, all_with_paths, remaining, ret, tier1,
                   tier2, consumer, catalog>>

\* a page request fails, or the body stops parsing after k items: the task ends with Err
ProducerFail ==
    /\ library # NoLibrary
    /\ prod[library.name] = "awaiting"
    /\ \E k \in 0 .. Len(PageItems(StartIndex(page))) :
        LET items == SubSeq(PageItems(StartIndex(page)), 1, k)
        IN /\ queue' = queue \o items
           /\ sent' = sent \o items
    /\ prod' = [prod EXCEPT ![library.name] = "err"]
    /\ UNCHANGED <<conf, pc, libraries, succeeded, all_with_paths, remaining, ret, tier1,
                   tier2, consumer, catalog, page, page_reqs>>

\* an aborted task is dropped when the runtime next polls it
ProducerCancel ==
    /\ \E n \in LibNames :
        /\ prod[n] = "aborting"
        /\ prod' = [prod EXCEPT ![n] = "cancelled"]
    /\ UNCHANGED <<conf, pc, libraries, succeeded, all_with_paths, remaining, ret, tier1,
                   tier2, consumer, catalog, queue, page, page_reqs, sent>>

\* mutant: get_items returns without aborting the producer
Abort_Missing(state) == state

\* handle.abort(): no effect on a task that has finished
Abort(state) == IF state \in {"spawned", "awaiting"} THEN "aborting" ELSE state

\* mutant: an item matches the first event whatever its path
FindEvent_AnyPath(candidates, item) == IF candidates = <<>> THEN 0 ELSE candidates[1]

\* events.iter().find(|ev| item.path == Some(ev.get_path(..))): the event, or 0
FindEvent(candidates, item) ==
    LET hits == {i \in DOMAIN candidates : evs[candidates[i]] = item.path}
    IN IF hits = {} THEN 0
       ELSE candidates[CHOOSE i \in hits : \A j \in hits : i <= j]

\* the paths of the library's events that some item of its catalog has
WantedPathsPresent == {evs[events[i]] : i \in DOMAIN events} \cap Range(catalog)

\* the events an item is tested against
Candidates == events

\* not_found_in_library.retain(|e| e.id != ev.id)
Retain(list, ev) ==
    LET Keep(e) == e # ev
    IN SelectSeq(list, Keep)

\* mutant: the not-found loop is missing
FinishLibrary_NoNotFound(s) ==
    /\ succeeded' = s
    /\ IF DOMAIN to_find = {}
       THEN /\ pc' = "done"
            /\ ret' = ReturnOk(SucceededIds(succeeded'))
       ELSE /\ pc' = "t3_loop"
            /\ ret' = ret

\* after the refresh loop: the not-found loop, then the next library or the return
FinishLibrary(s) ==
    /\ succeeded' = InsertAll(s, not_found_in_library, FALSE)
    /\ IF DOMAIN to_find = {}
       THEN /\ pc' = "done"
            /\ ret' = ReturnOk(SucceededIds(succeeded'))
       ELSE /\ pc' = "t3_loop"
            /\ ret' = ret

\* rx.recv() yields an item
ConsumerRecv ==
    /\ pc = "recv"
    /\ queue # <<>>
    /\ LET item == Head(queue)
           ev == FindEvent(Candidates, item)
       IN IF ev = 0
          THEN /\ queue' = Tail(queue)
               /\ UNCHANGED <<found_in_library, not_found_in_library, prod, enumerated, pc>>
          ELSE /\ found_in_library' = Append(found_in_library, <<ev, item>>)
               /\ not_found_in_library' = Retain(not_found_in_library, ev)
               /\ IF not_found_in_library' = <<>>
                  THEN \* break; handle.abort(); return: rx is dropped
                       /\ queue' = <<>>
                       /\ prod' = [prod EXCEPT ![library.name] = Abort(@)]
                       /\ enumerated' = [enumerated EXCEPT ![library.name] =
                                            [how |-> "stopped", paths |-> WantedPathsPresent]]
                       /\ pc' = "refresh"
                  ELSE /\ queue' = Tail(queue)
                       /\ UNCHANGED <<prod, enumerated, pc>>
    /\ UNCHANGED <<conf, libraries, succeeded, all_with_paths, remaining, ret, tier1, tier2,
                   to_find, library, events, wanted, refresh_log, refreshes, refresh_failed,
                   catalog, page, page_reqs, sent>>

\* rx.recv() yields None: the producer has ended and the channel is drained
ConsumerClosed ==
    /\ pc = "recv"
    /\ queue = <<>>
    /\ prod[library.name] \in {"ok", "err"}
    /\ enumerated' = [enumerated EXCEPT ![library.name] =
                         [how |-> IF prod[library.name] = "ok" THEN "exhausted" ELSE "failed",
                          paths |-> WantedPathsPresent]]
    /\ IF found_in_library = <<>>
       THEN FinishLibrary(succeeded)
       ELSE /\ pc' = "refresh"
            /\ UNCHANGED <<succeeded, ret>>
    /\ UNCHANGED <<conf, libraries, all_with_paths, remaining, tier1, tier2, to_find, library,
                   events, found_in_library, not_found_in_library, wanted, refresh_log,
                   refreshes, refresh_failed, producer>>

\* mutant: a failed refresh is propagated with `?`
RefreshItem_Propagates ==
    /\ pc = "refresh"
    /\ found_in_library # <<>>
    /\ \E ok \in BOOLEAN :
        LET ev == Head(found_in_library)[1]
            item == Head(found_in_library)[2]
        IN /\ refresh_log' = Append(refresh_log,
                                    [ev |-> ev, library |-> library.name, item |-> item.id,
                                     ok |-> ok])
           /\ refreshes' = [refreshes EXCEPT ![ev] = @ + 1]
           /\ refresh_failed' = IF ok THEN refresh_failed ELSE refresh_failed \cup {ev}
           /\ found_in_library' = Tail(found_in_library)
           /\ IF ~ok
              THEN /\ pc' = "error"
                   /\ ret' = ReturnErr("failed to refresh item")
                   /\ succeeded' = succeeded
              ELSE IF Tail(found_in_library) = <<>>
                   THEN FinishLibrary(AndTrue(succeeded, ev))
                   ELSE /\ succeeded' = AndTrue(succeeded, ev)
                        /\ UNCHANGED <<pc, ret>>
    /\ UNCHANGED <<conf, libraries, all_with_paths, remaining, tier1, tier2, to_find, library,
                   events, not_found_in_library, enumerated, wanted, producer>>

\* refresh_item for the next (event, item) pair succeeds or fails
RefreshItem ==
    /\ pc = "refresh"
    /\ found_in_library # <<>>
    /\ \E ok \in BOOLEAN :
        LET ev == Head(found_in_library)[1]
            item == Head(found_in_library)[2]
            s == IF ok THEN AndTrue(succeeded, ev) ELSE Insert(succeeded, ev, FALSE)
        IN /\ refresh_log' = Append(refresh_log,
                                    [ev |-> ev, library |-> library.name, item |-> item.id,
                                     ok |-> ok])
           /\ refreshes' = [refreshes EXCEPT ![ev] = @ + 1]
           /\ refresh_failed' = IF ok THEN refresh_failed ELSE refresh_failed \cup {ev}
           /\ found_in_library' = Tail(found_in_library)
           /\ IF Tail(found_in_library) = <<>>
              THEN FinishLibrary(s)
              ELSE /\ succeeded' = s
                   /\ UNCHANGED <<pc, ret>>
    /\ UNCHANGED <<conf, libraries, all_with_paths, remaining, tier1, tier2, to_find, library,
                   events, not_found_in_library, enumerated, wanted, producer>>

Next ==
    \/ LibrariesErr
    \/ LibrariesOk
    \/ BatchOk
    \/ BatchErr
    \/ Tier2Exit
    \/ Tier2Backoff
    \/ Tier2Issue
    \/ ScanRespond
    \/ Tier2Merge
    \/ Tier3Enter
    \/ Tier3Disabled
    \/ Tier3Skip
    \/ GetItems
    \/ FetchItemsErr
    \/ ProducerStart
    \/ ProducerPage
    \/ ProducerFail
    \/ ProducerCancel
    \/ ConsumerRecv
    \/ ConsumerClosed
    \/ RefreshItem

Spec == Init /\ [][Next]_vars
\* ================================================================== claims
\* events that match no library of the fetched catalog
NoLibraryEvents == {ev \in Events : HasNoLibrary(libraries, ev)}

\* the rounds of Tier 2 in which a single-path scan was requested for ev
ScanRounds(ev) == {i \in DOMAIN rounds : ev \in Range(rounds[i])}

\* ------------------------------------------------------------------ C1
\* C1: when process returns Ok, the outcome table holds a disposition (true or
\* false) for every submitted event id and for no other id.
C1_EveryEventDispositioned ==
    (pc = "done" /\ ret.kind = "ok") =>
        /\ DOMAIN succeeded = Events
        /\ \A ev \in Events : succeeded[ev] \in BOOLEAN

\* a run through all three tiers that ends with one event succeeded and one failed
C1_Witness ==
    /\ pc = "done"
    /\ ret.kind = "ok"
    /\ Len(evs) = 2
    /\ wanted # {}
    /\ \E a, b \in DOMAIN succeeded : succeeded[a] /\ ~succeeded[b]

\* ------------------------------------------------------------------ C2
\* C2: in every run that returns Ok, every event whose path matches no library is in
\* the returned succeeded-id set.
C2_NoLibraryEventsReturned ==
    (pc = "done" /\ ret.kind = "ok") => NoLibraryEvents \subseteq ret.ids

\* ------------------------------------------------------------------ C3
\* C3: for an event whose path matches no library, no batch-scan entry, no single-path
\* scan, no item enumeration and no refresh request is ever issued.
C3_NoLibraryEventsLeftAlone ==
    pc # "libraries" =>
        \A ev \in NoLibraryEvents :
            /\ ev \notin Range(batch_evs)
            /\ ev \notin Range(all_with_paths)
            /\ ev \notin Range(remaining)
            /\ ScanRounds(ev) = {}
            /\ ev \notin DOMAIN scan_results
            /\ ev \notin wanted
            /\ \A lib \in DOMAIN to_find : ev \notin Range(to_find[lib])
            /\ ev \notin Range(events)
            /\ refreshes[ev] = 0

\* an unmatched event rides along with an event that went through Tiers 1, 2 and 3
C3_Witness ==
    /\ pc = "done"
    /\ NoLibraryEvents # {}
    /\ batch_evs # <<>>
    /\ Len(rounds) = 4
    /\ \E ev \in Events : refreshes[ev] > 0

\* ------------------------------------------------------------------ C4
\* what C4 promises for an event: Succeeded, no Tier 2 scan in any round, never wanted
\* by Tier 3
SucceededInTier1(ev) ==
    /\ ev \in DOMAIN succeeded
    /\ succeeded[ev]
    /\ ScanRounds(ev) = {}
    /\ ev \notin DOMAIN scan_results
    /\ ev \notin Range(remaining)
    /\ ev \notin wanted

\* C4 as stated: when the batch response contains a result keyed to an event's path
\* with status PathNotFound or ParentNotFound, the event is Succeeded and never retried.
C4_AnyNotFoundResult == \A ev \in t1_notfound : SucceededInTier1(ev)

\* C4 as amended: when the result the engine keeps for an event's path (the last result
\* of the batch response keyed to that path) has status PathNotFound or ParentNotFound,
\* the event is Succeeded and never retried in Tier 2 or Tier 3.
C4_LastNotFoundResult == \A ev \in t1_last_notfound : SucceededInTier1(ev)

\* an event is answered not-found by the batch while another event goes on to Tier 3
C4_Witness ==
    /\ pc = "done"
    /\ t1_last_notfound # {}
    /\ Len(rounds) = 4
    /\ wanted # {}

\* ------------------------------------------------------------------ C5
\* C5: when the batch call fails, the run goes on, Tier 1 dispositions no event, and
\* the first Tier 2 round requests one single-path scan for every matched event.
C5_BatchFailureDemotesAll ==
    batch_outcome = "err" =>
        /\ rounds = <<>> =>
              /\ pc = "t2"
              /\ attempt = 0
              /\ remaining = all_with_paths
              /\ remaining # <<>>
              /\ \A ev \in Range(all_with_paths) : ev \notin DOMAIN succeeded
        /\ rounds # <<>> => rounds[1] = all_with_paths

\* the batch call failed and the first round asked for both events
C5_Witness ==
    /\ batch_outcome = "err"
    /\ Len(all_with_paths) = 2
    /\ Len(rounds) >= 1
    /\ pc = "t2_join"

\* ------------------------------------------------------------------ C6
RECURSIVE Occurrences(_, _)
Occurrences(q, x) ==
    IF q = <<>> THEN 0 ELSE (IF Head(q) = x THEN 1 ELSE 0) + Occurrences(Tail(q), x)

RECURSIVE ScanRequests(_, _)
ScanRequests(rs, ev) ==
    IF rs = <<>> THEN 0 ELSE Occurrences(Head(rs), ev) + ScanRequests(Tail(rs), ev)

\* C6: Tier 2 runs at most 4 rounds (one immediate, at most 3 after a backoff delay),
\* no event gets more than 4 single-path scans, and no round and no delay happens once
\* the remaining set is empty.
C6_Tier2Bounded ==
    /\ Len(rounds) <= 4
    /\ \A ev \in Events : ScanRequests(rounds, ev) <= 4
    /\ \A i \in DOMAIN rounds : rounds[i] # <<>>
    /\ pc = "t2_issue" => remaining # <<>>
    /\ Len(delays) = IF pc = "t2_issue" THEN Len(rounds)
                     ELSE IF rounds = <<>> THEN 0 ELSE Len(rounds) - 1
    /\ delays = SubSeq(<<5, 15, 30>>, 1, Len(delays))

\* one event is resolved in the second round, the other takes all four rounds
C6_Witness ==
    /\ pc = "t3gate"
    /\ Len(rounds) = 4
    /\ delays = <<5, 15, 30>>
    /\ \E a, b \in Events :
        /\ ScanRequests(rounds, a) = 4
        /\ ScanRequests(rounds, b) = 2
\* ------------------------------------------------------------------ C7
\* get_items and the loops after it have finished for `library`
LibraryFinished == pc \in {"t3_loop", "done"} /\ library # NoLibrary

\* refresh calls issued for item i of the current library
RefreshCalls(i) == Cardinality({k \in DOMAIN refresh_log : refresh_log[k].item = i})

\* C7: when a library's streamed catalog contains an item whose path equals a wanted
\* event's path, the event is matched and exactly one refresh call is issued for the
\* matching item; and once the wanted set is empty the consumer has stopped reading and
\* the producer requests no further page.
C7_MatchRefreshStop ==
    /\ (LibraryFinished /\ enumerated[library.name].how \in {"exhausted", "stopped"}) =>
          /\ \A ev \in Range(events) :
                evs[ev] \in Range(catalog) =>
                    /\ ev \notin Range(not_found_in_library)
                    /\ \E k \in DOMAIN refresh_log : refresh_log[k].ev = ev
          /\ \A i \in DOMAIN catalog : RefreshCalls(i) <= 1
    /\ (library # NoLibrary /\ enumerated[library.name].how = "stopped") =>
          /\ queue = <<>>
          /\ prod[library.name] \notin {"spawned", "awaiting"}

\* ------------------------------------------------------------------ C8
\* the libraries an event is enqueued against
CandidateLibraries(ev) == Range(get_libraries(libraries, evs[ev]))

\* every candidate library was streamed to the end and held no item with the event's path
AbsentEverywhere(ev) ==
    \A lib \in CandidateLibraries(ev) :
        /\ enumerated[lib.name].how = "exhausted"
        /\ evs[ev] \notin enumerated[lib.name].paths

\* C8: an event whose candidate libraries are all streamed to exhaustion without an
\* item of its path is Failed, and no refresh call is issued on its behalf.
C8_AbsentEventFails ==
    (pc = "done" /\ ret.kind = "ok") =>
        \A ev \in wanted :
            AbsentEverywhere(ev) =>
                /\ ev \in DOMAIN succeeded
                /\ ~succeeded[ev]
                /\ ev \notin ret.ids
                /\ refreshes[ev] = 0

\* an event of two libraries is absent from both, while another event is refreshed
C8_Witness ==
    /\ pc = "done"
    /\ \E ev \in wanted :
        /\ AbsentEverywhere(ev)
        /\ Cardinality(CandidateLibraries(ev)) = 2
    /\ \E ev \in wanted : refreshes[ev] > 0

\* ------------------------------------------------------------------ C9
\* the catalog as items
CatalogItems == [i \in DOMAIN catalog |-> [id |-> i, path |-> catalog[i]]]

\* C9: page k is requested at offset k * limit; a producer that ends normally has made
\* Len(catalog) \div limit + 1 requests (m + 1 for m * limit items, the last one empty)
\* and has sent every item in order; the consumer reads them in that order.
C9_Pagination ==
    /\ \A k \in DOMAIN page_reqs : page_reqs[k] = (k - 1) * limit
    /\ \E k \in 0 .. Len(sent) : queue = SubSeq(sent, k + 1, Len(sent))
    /\ (library # NoLibrary /\ prod[library.name] = "ok") =>
          /\ Len(page_reqs) = (Len(catalog) \div limit) + 1
          /\ sent = CatalogItems

\* a catalog of exactly one full page: two requests, the second returns nothing
C9_Witness ==
    /\ library # NoLibrary
    /\ prod[library.name] = "ok"
    /\ Len(catalog) = limit
    /\ page_reqs = <<0, limit>>
    /\ sent = CatalogItems

\* ------------------------------------------------------------------ C10
\* Tier 3 has done something: a wanted set, an enumeration, a page or a refresh request
Tier3Touched ==
    \/ pc \in {"t3_loop", "recv", "refresh"}
    \/ wanted # {}
    \/ DOMAIN to_find # {}
    \/ library # NoLibrary
    \/ \E n \in LibNames : prod[n] # "none"
    \/ page_reqs # <<>>
    \/ \E ev \in Events : refreshes[ev] > 0

\* C10: Tier 3 is entered only with events left by Tier 2 and the fallback enabled; with
\* the fallback disabled every leftover event is Failed, is not returned, and nothing is
\* enumerated or refreshed.
C10_Tier3Gate ==
    /\ Tier3Touched => (refresh_metadata /\ remaining # <<>> /\ wanted = Range(remaining))
    /\ (~refresh_metadata /\ pc = "done" /\ ret.kind = "ok") =>
          \A ev \in Range(remaining) :
              /\ ev \in DOMAIN succeeded
              /\ ~succeeded[ev]
              /\ ev \notin ret.ids

\* the fallback is disabled and an event is left after four rounds
C10_Witness ==
    /\ pc = "done"
    /\ ~refresh_metadata
    /\ remaining # <<>>
    /\ Len(rounds) = 4
    /\ \E ev \in Events : ev \in ret.ids

\* ------------------------------------------------------------------ C11
\* the run-level error process returns for a failed enumeration of library n
EnumerationError(n) == ReturnErr("failed to fetch items for library: " \o n)

\* C11: when a page of a library's items fails to be fetched or parsed in Tier 3, the run
\* ends with a run-level error carrying the library's name: no event is marked Failed
\* from the partial enumeration and no succeeded-id set is returned.
C11_EnumerationFailureAborts ==
    \A n \in LibNames :
        enumerated[n].how = "failed" =>
            /\ pc = "error"
            /\ ret = EnumerationError(n)

\* ------------------------------------------------------------------ C12
\* process returned the error of the catalog fetch
CatalogFetchFailed == pc = "error" /\ ret = ReturnErr("failed to fetch libraries")

\* C12: when the library catalog fetch fails, the run returns an error and takes no
\* further step (the fetch is not retried), no event has a disposition, and no batch
\* scan, single scan, item enumeration or refresh request has been issued.
C12_CatalogFailureIsFatal ==
    CatalogFetchFailed =>
        /\ ~ENABLED Next
        /\ libraries = <<>>
        /\ succeeded = <<>>
        /\ batch_evs = <<>>
        /\ batch_outcome = "none"
        /\ rounds = <<>>
        /\ scan_results = <<>>
        /\ ~Tier3Touched
        /\ \A n \in LibNames : enumerated[n] = NotEnumerated

\* the catalog fetch fails for a batch of two events
C12_Witness ==
    /\ CatalogFetchFailed
    /\ Len(evs) = 2

\* ------------------------------------------------------------------ C13
\* some library yielded a match for ev and every refresh call issued for ev succeeded
MatchedAndRefreshed(ev) == refreshes[ev] > 0 /\ ev \notin refresh_failed

\* C13: an event handed to Tier 3 whose path some candidate library holds, and whose
\* refresh succeeds, ends Succeeded whatever the order of its libraries and whether or
\* not its other candidate libraries hold the path; it ends Failed for absence only when
\* no candidate library yields a match.
C13_FirstMatchClaims ==
    (pc = "done" /\ ret.kind = "ok") =>
        \A ev \in wanted :
            MatchedAndRefreshed(ev) =>
                /\ ev \in DOMAIN succeeded
                /\ succeeded[ev]
                /\ ev \in ret.ids

\* ------------------------------------------------------------------ C14
\* C14: a disposition that is Succeeded is never changed to Failed, and an event marked
\* Succeeded is not visited again (no scan, enumeration or refresh on its behalf).
C14_WriteOnce ==
    [][\A ev \in DOMAIN succeeded :
          succeeded[ev] =>
              /\ ev \in DOMAIN succeeded'
              /\ succeeded'[ev]
              /\ refreshes'[ev] = refreshes[ev]
              /\ library' # library => ev \notin Range(events')
              /\ ev \notin DOMAIN scan_results']_vars

\* ------------------------------------------------------------------ C15
\* the classification of Tier 1 applied to the outcome of a single-path scan
Tier1Classification(result) == IsResolved(result) \/ IsNotFound(result)

\* C15: when a Tier 2 round is merged, an event leaves the remaining set as Succeeded
\* exactly when its scan returned Created, Refreshed, Discovered, PathNotFound or
\* ParentNotFound; with any other status, or an errored call, it stays unresolved.
C15_Tier2ClassifiesLikeTier1 ==
    [][(pc = "t2_join" /\ pc' = "t2") =>
          \A ev \in DOMAIN scan_results :
              IF Tier1Classification(scan_results[ev])
              THEN /\ ev \in DOMAIN succeeded'
                   /\ succeeded'[ev]
                   /\ ev \notin Range(remaining')
              ELSE /\ ev \in Range(remaining')
                   /\ ev \notin DOMAIN succeeded']_vars

\* ------------------------------------------------------------------ C16
\* the events of list q that satisfy nothing in set S, in order
Excluding(q, S) ==
    LET Keep(e) == e \notin S
    IN SelectSeq(q, Keep)

\* events whose single-path scan of the round in flight ended with Err
Errored == {ev \in DOMAIN scan_results : scan_results[ev] = "Err"}

Tier1Stage == pc \in {"libraries", "tier1"}

Tier2Stage == pc \in {"t2", "t2_issue", "t2_join"}

\* the tiers run in sequence, and what Tier 2 leaves was requested, and errored, in
\* every round
TiersInSequence ==
    /\ Tier1Stage => (rounds = <<>> /\ scan_results = <<>> /\ ~Tier3Touched)
    /\ rounds # <<>> => batch_outcome # "none"
    /\ Tier2Stage => (batch_outcome # "none" /\ ~Tier3Touched)
    /\ pc = "t2_join" =>
          /\ rounds[Len(rounds)] = remaining
          /\ DOMAIN scan_results = Range(remaining)
    /\ pc # "t2_join" => scan_results = <<>>
    /\ Tier3Touched => (Len(rounds) = 4 /\ ~Tier1Stage /\ ~Tier2Stage)
    /\ (pc \in {"t3gate", "t3_loop", "recv", "refresh", "done"} /\ remaining # <<>>) =>
          /\ Len(rounds) = 4
          /\ \A ev \in Range(remaining) : ScanRounds(ev) = 1 .. 4
    /\ \A i \in DOMAIN rounds : i > 1 => Range(rounds[i]) \subseteq Range(rounds[i - 1])

\* each handover passes on exactly the unresolved events
Handover ==
    /\ (pc = "tier1" /\ pc' = "t2") =>
          remaining' = Excluding(all_with_paths, SucceededIds(succeeded'))
    /\ rounds' # rounds =>
          /\ rounds' = Append(rounds, remaining)
          /\ rounds = <<>> => remaining = Excluding(all_with_paths, SucceededIds(succeeded))
    /\ (pc = "t2_join" /\ pc' = "t2") =>
          remaining' = Excluding(remaining, DOMAIN scan_results \ Errored)
    /\ (pc = "t3gate" /\ pc' = "t3_loop") =>
          /\ wanted' = Range(remaining)
          /\ \A ev \in Range(remaining) : \E lib \in DOMAIN to_find' : ev \in Range(to_find'[lib])
          /\ \A lib \in DOMAIN to_find' : Range(to_find'[lib]) \subseteq Range(remaining)
    /\ (pc = "t3gate" /\ pc' = "done") =>
          {ev \in Events : ev \in DOMAIN succeeded' /\ ~succeeded'[ev]} = Range(remaining)
    /\ (pc \notin {"tier1", "t2_join"}) => remaining' = remaining

\* C16: the tiers run strictly in sequence and each hands over exactly its unresolved
\* events: Tier 2 starts from the matched events Tier 1 did not mark Succeeded, round
\* N+1 asks for exactly the events whose round-N call errored, and Tier 3 (or the direct
\* failure) gets exactly the events whose call errored in every round.
C16_TiersHandOver == []TiersInSequence /\ [][Handover]_vars

\* two events enter Tier 2, one is resolved in its first round, the other reaches Tier 3
C16_Witness ==
    /\ pc = "recv"
    /\ Len(rounds) = 4
    /\ Len(rounds[1]) = 2
    /\ Len(rounds[2]) = 1
    /\ wanted = Range(remaining)
    /\ Len(remaining) = 1

\* ------------------------------------------------------------------ C17
\* requests of the round in flight that have not completed
Pending == {ev \in DOMAIN scan_results : scan_results[ev] = "pending"}

\* the disposition of ev in table s: "none" when it has no entry
Disposition(s, ev) == IF ev \in DOMAIN s THEN (IF s[ev] THEN "Succeeded" ELSE "Failed") ELSE "none"

\* a round in flight has exactly one request per remaining event
OneRequestPerEvent ==
    pc = "t2_join" =>
        /\ DOMAIN scan_results = Range(remaining)
        /\ Cardinality(Range(remaining)) = Len(remaining)
        /\ rounds[Len(rounds)] = remaining

\* nothing leaves the join, and no round or delay starts, while a request is in flight;
\* the merge writes each outcome to its own event only
FullJoin ==
    /\ (pc = "t2_join" /\ pc' # "t2_join") => Pending = {}
    /\ (rounds' # rounds \/ delays' # delays) => scan_results = <<>>
    /\ (pc = "t2_join" /\ Pending # {}) =>
          /\ succeeded' = succeeded
          /\ remaining' = remaining
          /\ \E ev \in Pending :
                /\ scan_results'[ev] # "pending"
                /\ \A other \in DOMAIN scan_results \ {ev} :
                      scan_results'[other] = scan_results[other]
    /\ (pc = "t2_join" /\ pc' = "t2") =>
          \A ev \in Events :
              IF ev \in DOMAIN scan_results
              THEN Disposition(succeeded', ev) =
                       (IF scan_results[ev] = "Err" THEN "none" ELSE "Succeeded")
              ELSE Disposition(succeeded', ev) = Disposition(succeeded, ev)

\* C17: a Tier 2 round issues one request per still-remaining event, the requests
\* complete in any order, no request or backoff delay of the next round starts before
\* every request of the round has completed or errored, and each outcome is merged only
\* into its own event's disposition.
C17_RoundIsFullJoin == []OneRequestPerEvent /\ [][FullJoin]_vars

\* in a retry round the second event's request has completed while the first is in flight
C17_Witness ==
    /\ pc = "t2_join"
    /\ Len(rounds) = 2
    /\ Len(remaining) = 2
    /\ scan_results[remaining[1]] = "pending"
    /\ scan_results[remaining[2]] = "Err"

\* ------------------------------------------------------------------ C18
\* the runtime runs every task that is ready: an aborted task is polled, and dropped
Scheduling == WF_vars(ProducerCancel)

FairSpec == Spec /\ Scheduling

\* the producer of library n has been cancelled by handle.abort()
Aborted(n) == prod[n] \in {"aborting", "cancelled"}

\* the producer of library n can still request pages and send items
Paginating(n) == prod[n] \in {"spawned", "awaiting"}

\* a producer runs only while get_items reads its channel; after the abort nothing is
\* left for the consumer to read; an aborted task is ready to be dropped, and a producer
\* that has a page to deliver can deliver it whatever the consumer has read
NoLeakedProducer ==
    \A n \in LibNames :
        /\ Paginating(n) => (pc = "recv" /\ library.name = n)
        /\ (Aborted(n) /\ library.name = n) => (queue = <<>> /\ pc # "recv")
        /\ prod[n] = "aborting" => ENABLED ProducerCancel
        /\ (prod[n] = "awaiting" /\ library.name = n) => ENABLED ProducerPage

\* once aborted, a producer stays aborted, requests no page and sends no item, and the
\* consumer takes no further item of its library
QuietAfterAbort ==
    \A n \in LibNames :
        Aborted(n) =>
            /\ Aborted(n)'
            /\ (library.name = n /\ library' = library) =>
                  /\ page_reqs' = page_reqs
                  /\ sent' = sent
                  /\ queue' = <<>>
                  /\ Len(found_in_library') <= Len(found_in_library)

\* C18: under every interleaving of producer and consumer, once the consumer aborts the
\* producer no further page is requested and no further item is delivered, the producer
\* is never blocked on the queue, every aborted task eventually finishes (it stays aborted
\* and from some point on none is left waiting to be dropped), and no producer keeps
\* paginating after get_items has returned.
C18_AbortStopsProducer ==
    /\ []NoLeakedProducer
    /\ [][QuietAfterAbort]_vars
    /\ <>[](\A n \in LibNames : prod[n] # "aborting")

\* the producer is aborted, and dropped, while its request for the second page is in flight
C18_Witness ==
    /\ library # NoLibrary
    /\ prod[library.name] = "cancelled"
    /\ page_reqs = <<0, limit>>
    /\ Len(sent) = limit
    /\ enumerated[library.name].how = "stopped"
    /\ pc = "done"

\* ------------------------------------------------------------------ C19
\* the run-level errors: the catalog fetch failed, or a library could not be enumerated
RunLevelErrors ==
    {ReturnErr("failed to fetch libraries")} \cup {EnumerationError(n) : n \in LibNames}

\* a run-level error comes only from the catalog or an enumeration; an event whose
\* refresh failed is Failed and is not returned
OnlyRunLevelErrors ==
    /\ ret.kind = "err" <=> pc = "error"
    /\ pc = "error" => ret \in RunLevelErrors
    /\ pc = "done" => ret.kind = "ok"
    /\ \A ev \in refresh_failed : Disposition(succeeded, ev) = "Failed" /\ ev \notin ret.ids

\* the refresh call this step issued failed
RefreshFailedNow ==
    /\ refresh_log' # refresh_log
    /\ refresh_log' # <<>>
    /\ ~refresh_log'[Len(refresh_log')].ok

\* a single-path scan ended with Err in this step
ScanErroredNow ==
    \E ev \in DOMAIN scan_results :
        /\ ev \in DOMAIN scan_results'
        /\ scan_results[ev] = "pending"
        /\ scan_results'[ev] = "Err"

\* a failing scan or refresh does not end the run; a failing refresh makes its own event
\* Failed and changes no other event's disposition (the events not found in the library
\* are Failed by the not-found loop that follows the last refresh)
PerEventFailure ==
    /\ (ret'.kind = "err" /\ ret.kind # "err") => pc \in {"libraries", "t3_loop"}
    /\ ScanErroredNow => (pc' = pc /\ ret' = ret /\ succeeded' = succeeded)
    /\ (pc = "t2_join" /\ pc' = "t2") =>
          \A ev \in Errored : Disposition(succeeded', ev) = "none" /\ ret' = ret
    /\ RefreshFailedNow =>
          LET failed == refresh_log'[Len(refresh_log')].ev
          IN /\ pc' # "error"
             /\ ret'.kind # "err"
             /\ Disposition(succeeded', failed) = "Failed"
             /\ \A ev \in Events \ ({failed} \cup Range(not_found_in_library)) :
                    Disposition(succeeded', ev) = Disposition(succeeded, ev)

\* C19: an errored single-path scan or a failed refresh call never makes the run return
\* an error; a failed refresh makes only its own event Failed; a run-level error is
\* returned only for a catalog fetch failure or a library enumeration failure.
C19_PerEventFailuresStayLocal == []OnlyRunLevelErrors /\ [][PerEventFailure]_vars

\* every scan of both events errors, one refresh fails, the other event is returned
C19_Witness ==
    /\ pc = "done"
    /\ ret.kind = "ok"
    /\ Len(rounds) = 4
    /\ Len(rounds[4]) = 2
    /\ refresh_failed # {}
    /\ ret.ids # {}
    /\ ret.ids \subseteq wanted

\* ------------------------------------------------------------------ C20
\* items the current library's enumeration has paired with ev, not yet refreshed
Pairs(ev) == Cardinality({k \in DOMAIN found_in_library : found_in_library[k][1] = ev})

\* refresh calls issued for ev in the current library
RefreshCallsFor(ev) == Cardinality({k \in DOMAIN refresh_log : refresh_log[k].ev = ev})

\* C20: while one library is enumerated, an item is tested only against the still-wanted
\* events: a matched event is not matched again, so each event is paired with at most
\* one item and gets at most one refresh call per library, also when the catalog holds
\* several items of the same path and other events are still wanted.
C20_MatchedOncePerLibrary ==
    \A ev \in Events :
        /\ Pairs(ev) + RefreshCallsFor(ev) <= 1
        /\ \A k \in DOMAIN found_in_library :
              found_in_library[k][1] = ev => ev \notin Range(not_found_in_library)

\* ------------------------------------------------------------------ C21
\* get_items has returned for `library`: its two result lists are final
GetItemsReturned == pc \in {"refresh", "t3_loop", "done"} /\ library # NoLibrary

\* the paths of the items the library's stream delivered
DeliveredPaths == {sent[k].path : k \in DOMAIN sent}

\* C21: for one candidate library, an event is left as not found (and so marked Failed)
\* only if no item delivered by the library's stream had the event's rewritten path, also
\* when several events share that path.
C21_NotFoundMeansNotDelivered ==
    GetItemsReturned =>
        \A ev \in Range(not_found_in_library) : evs[ev] \notin DeliveredPaths
====
